---- MODULE Spec2Model ----
(***************************************************************************)
(* Model of src/components/object-detection/app.py: the streaming          *)
(* lifecycle (start_stream / stop_stream), the detection worker thread     *)
(* (detection_loop), the broadcast to the connected websockets             *)
(* (broadcast_detection_data, websocket_endpoint) and the threat analysis  *)
(* (analyze_threat_with_groq).                                             *)
(*                                                                         *)
(* start_stream and stop_stream are coroutines without any await, so the   *)
(* event loop runs one of them at a time; the worker threads run           *)
(* concurrently with them.  Each handler is therefore cut at the lines     *)
(* where it reads or writes a global the workers also use.                 *)
(***************************************************************************)
EXTENDS Integers, Sequences, FiniteSets, TLC

\* ---------------------------------------------------------------- bounds
\* start_stream calls in one run; call k creates capture k and, when it
\* gets that far, thread k.
MaxStarts == 3
\* websocket clients that ever connect
MaxClients == 2
\* length of the accumulated_objects list of a stop request
MaxAcc == 3
\* length of the longest list of dangerous objects of a stop request
MaxRun == 6
MaxBoxes == 2

\* line 72: 0.4, in ten-thousandths
ConfThreshold == 4000
Caps == 1..MaxStarts
Threads == 1..MaxStarts
WS == 1..MaxClients
None == 0

\* ------------------------------------------------------- class names
\* A class name is a sequence of characters, so that lower() and the
\* substring test `in` are computed, not assumed. A character is its code
\* point, a number of 0..1114111, as ord() gives it; Text writes a sequence
\* of ASCII letters as code points. str.lower() is computed for every
\* character, from the tables of the interpreter (Unicode 14.0).
UpperAlpha == <<"A","B","C","D","E","F","G","H","I","J","K","L","M",
                "N","O","P","Q","R","S","T","U","V","W","X","Y","Z">>
LowerAlpha == <<"a","b","c","d","e","f","g","h","i","j","k","l","m",
                "n","o","p","q","r","s","t","u","v","w","x","y","z">>

\* ord() of an ASCII letter
Ord(ch) ==
    IF \E i \in 1..26 : UpperAlpha[i] = ch
    THEN 64 + (CHOOSE i \in 1..26 : UpperAlpha[i] = ch)
    ELSE 96 + (CHOOSE i \in 1..26 : LowerAlpha[i] = ch)

Text(letters) == [i \in 1..Len(letters) |-> Ord(letters[i])]

\* The characters that lower() maps to one other character: <<lo, hi, step,
\* d>> stands for the code points lo, lo + step, ... up to hi, each lowered
\* to itself plus d. <<65, 90, 1, 32>> is A-Z, <<8490, 8490, 1, -8383>> the
\* Kelvin sign, lowered to k.
LowerRanges ==
    {<<65, 90, 1, 32>>, <<192, 214, 1, 32>>, <<216, 222, 1, 32>>,
     <<256, 302, 2, 1>>, <<306, 310, 2, 1>>, <<313, 327, 2, 1>>,
     <<330, 374, 2, 1>>, <<376, 376, 1, -121>>, <<377, 381, 2, 1>>,
     <<385, 385, 1, 210>>, <<386, 388, 2, 1>>, <<390, 390, 1, 206>>,
     <<391, 391, 1, 1>>, <<393, 394, 1, 205>>, <<395, 395, 1, 1>>,
     <<398, 398, 1, 79>>, <<399, 399, 1, 202>>, <<400, 400, 1, 203>>,
     <<401, 401, 1, 1>>, <<403, 403, 1, 205>>, <<404, 404, 1, 207>>,
     <<406, 406, 1, 211>>, <<407, 407, 1, 209>>, <<408, 408, 1, 1>>,
     <<412, 412, 1, 211>>, <<413, 413, 1, 213>>, <<415, 415, 1, 214>>,
     <<416, 420, 2, 1>>, <<422, 422, 1, 218>>, <<423, 423, 1, 1>>,
     <<425, 425, 1, 218>>, <<428, 428, 1, 1>>, <<430, 430, 1, 218>>,
     <<431, 431, 1, 1>>, <<433, 434, 1, 217>>, <<435, 437, 2, 1>>,
     <<439, 439, 1, 219>>, <<440, 440, 1, 1>>, <<444, 444, 1, 1>>,
     <<452, 452, 1, 2>>, <<453, 453, 1, 1>>, <<455, 455, 1, 2>>,
     <<456, 456, 1, 1>>, <<458, 458, 1, 2>>, <<459, 475, 2, 1>>,
     <<478, 494, 2, 1>>, <<497, 497, 1, 2>>, <<498, 500, 2, 1>>,
     <<502, 502, 1, -97>>, <<503, 503, 1, -56>>, <<504, 542, 2, 1>>,
     <<544, 544, 1, -130>>, <<546, 562, 2, 1>>, <<570, 570, 1, 10795>>,
     <<571, 571, 1, 1>>, <<573, 573, 1, -163>>, <<574, 574, 1, 10792>>,
     <<577, 577, 1, 1>>, <<579, 579, 1, -195>>, <<580, 580, 1, 69>>,
     <<581, 581, 1, 71>>, <<582, 590, 2, 1>>, <<880, 882, 2, 1>>,
     <<886, 886, 1, 1>>, <<895, 895, 1, 116>>, <<902, 902, 1, 38>>,
     <<904, 906, 1, 37>>, <<908, 908, 1, 64>>, <<910, 911, 1, 63>>,
     <<913, 929, 1, 32>>, <<931, 939, 1, 32>>, <<975, 975, 1, 8>>,
     <<984, 1006, 2, 1>>, <<1012, 1012, 1, -60>>, <<1015, 1015, 1, 1>>,
     <<1017, 1017, 1, -7>>, <<1018, 1018, 1, 1>>, <<1021, 1023, 1, -130>>,
     <<1024, 1039, 1, 80>>, <<1040, 1071, 1, 32>>, <<1120, 1152, 2, 1>>,
     <<1162, 1214, 2, 1>>, <<1216, 1216, 1, 15>>, <<1217, 1229, 2, 1>>,
     <<1232, 1326, 2, 1>>, <<1329, 1366, 1, 48>>, <<4256, 4293, 1, 7264>>,
     <<4295, 4295, 1, 7264>>, <<4301, 4301, 1, 7264>>,
     <<5024, 5103, 1, 38864>>, <<5104, 5109, 1, 8>>,
     <<7312, 7354, 1, -3008>>, <<7357, 7359, 1, -3008>>,
     <<7680, 7828, 2, 1>>, <<7838, 7838, 1, -7615>>, <<7840, 7934, 2, 1>>,
     <<7944, 7951, 1, -8>>, <<7960, 7965, 1, -8>>, <<7976, 7983, 1, -8>>,
     <<7992, 7999, 1, -8>>, <<8008, 8013, 1, -8>>, <<8025, 8031, 2, -8>>,
     <<8040, 8047, 1, -8>>, <<8072, 8079, 1, -8>>, <<8088, 8095, 1, -8>>,
     <<8104, 8111, 1, -8>>, <<8120, 8121, 1, -8>>, <<8122, 8123, 1, -74>>,
     <<8124, 8124, 1, -9>>, <<8136, 8139, 1, -86>>, <<8140, 8140, 1, -9>>,
     <<8152, 8153, 1, -8>>, <<8154, 8155, 1, -100>>, <<8168, 8169, 1, -8>>,
     <<8170, 8171, 1, -112>>, <<8172, 8172, 1, -7>>, <<8184, 8185, 1, -128>>,
     <<8186, 8187, 1, -126>>, <<8188, 8188, 1, -9>>,
     <<8486, 8486, 1, -7517>>, <<8490, 8490, 1, -8383>>,
     <<8491, 8491, 1, -8262>>, <<8498, 8498, 1, 28>>, <<8544, 8559, 1, 16>>,
     <<8579, 8579, 1, 1>>, <<9398, 9423, 1, 26>>, <<11264, 11311, 1, 48>>,
     <<11360, 11360, 1, 1>>, <<11362, 11362, 1, -10743>>,
     <<11363, 11363, 1, -3814>>, <<11364, 11364, 1, -10727>>,
     <<11367, 11371, 2, 1>>, <<11373, 11373, 1, -10780>>,
     <<11374, 11374, 1, -10749>>, <<11375, 11375, 1, -10783>>,
     <<11376, 11376, 1, -10782>>, <<11378, 11378, 1, 1>>,
     <<11381, 11381, 1, 1>>, <<11390, 11391, 1, -10815>>,
     <<11392, 11490, 2, 1>>, <<11499, 11501, 2, 1>>, <<11506, 11506, 1, 1>>,
     <<42560, 42604, 2, 1>>, <<42624, 42650, 2, 1>>, <<42786, 42798, 2, 1>>,
     <<42802, 42862, 2, 1>>, <<42873, 42875, 2, 1>>,
     <<42877, 42877, 1, -35332>>, <<42878, 42886, 2, 1>>,
     <<42891, 42891, 1, 1>>, <<42893, 42893, 1, -42280>>,
     <<42896, 42898, 2, 1>>, <<42902, 42920, 2, 1>>,
     <<42922, 42922, 1, -42308>>, <<42923, 42923, 1, -42319>>,
     <<42924, 42924, 1, -42315>>, <<42925, 42925, 1, -42305>>,
     <<42926, 42926, 1, -42308>>, <<42928, 42928, 1, -42258>>,
     <<42929, 42929, 1, -42282>>, <<42930, 42930, 1, -42261>>,
     <<42931, 42931, 1, 928>>, <<42932, 42946, 2, 1>>,
     <<42948, 42948, 1, -48>>, <<42949, 42949, 1, -42307>>,
     <<42950, 42950, 1, -35384>>, <<42951, 42953, 2, 1>>,
     <<42960, 42960, 1, 1>>, <<42966, 42968, 2, 1>>, <<42997, 42997, 1, 1>>,
     <<65313, 65338, 1, 32>>, <<66560, 66599, 1, 40>>,
     <<66736, 66771, 1, 40>>, <<66928, 66938, 1, 39>>,
     <<66940, 66954, 1, 39>>, <<66956, 66962, 1, 39>>,
     <<66964, 66965, 1, 39>>, <<68736, 68786, 1, 64>>,
     <<71840, 71871, 1, 32>>, <<93760, 93791, 1, 32>>,
     <<125184, 125217, 1, 34>>}

\* The characters the final-sigma rule looks through (Case_Ignorable), as
\* intervals <<lo, hi>>
CaseIgnorableRanges ==
    {<<39, 39>>, <<46, 46>>, <<58, 58>>, <<94, 94>>, <<96, 96>>,
     <<168, 168>>, <<173, 173>>, <<175, 175>>, <<180, 180>>, <<183, 184>>,
     <<688, 879>>, <<884, 885>>, <<890, 890>>, <<900, 901>>, <<903, 903>>,
     <<1155, 1161>>, <<1369, 1369>>, <<1375, 1375>>, <<1425, 1469>>,
     <<1471, 1471>>, <<1473, 1474>>, <<1476, 1477>>, <<1479, 1479>>,
     <<1524, 1524>>, <<1536, 1541>>, <<1552, 1562>>, <<1564, 1564>>,
     <<1600, 1600>>, <<1611, 1631>>, <<1648, 1648>>, <<1750, 1757>>,
     <<1759, 1768>>, <<1770, 1773>>, <<1807, 1807>>, <<1809, 1809>>,
     <<1840, 1866>>, <<1958, 1968>>, <<2027, 2037>>, <<2042, 2042>>,
     <<2045, 2045>>, <<2070, 2093>>, <<2137, 2139>>, <<2184, 2184>>,
     <<2192, 2193>>, <<2200, 2207>>, <<2249, 2306>>, <<2362, 2362>>,
     <<2364, 2364>>, <<2369, 2376>>, <<2381, 2381>>, <<2385, 2391>>,
     <<2402, 2403>>, <<2417, 2417>>, <<2433, 2433>>, <<2492, 2492>>,
     <<2497, 2500>>, <<2509, 2509>>, <<2530, 2531>>, <<2558, 2558>>,
     <<2561, 2562>>, <<2620, 2620>>, <<2625, 2626>>, <<2631, 2632>>,
     <<2635, 2637>>, <<2641, 2641>>, <<2672, 2673>>, <<2677, 2677>>,
     <<2689, 2690>>, <<2748, 2748>>, <<2753, 2757>>, <<2759, 2760>>,
     <<2765, 2765>>, <<2786, 2787>>, <<2810, 2815>>, <<2817, 2817>>,
     <<2876, 2876>>, <<2879, 2879>>, <<2881, 2884>>, <<2893, 2893>>,
     <<2901, 2902>>, <<2914, 2915>>, <<2946, 2946>>, <<3008, 3008>>,
     <<3021, 3021>>, <<3072, 3072>>, <<3076, 3076>>, <<3132, 3132>>,
     <<3134, 3136>>, <<3142, 3144>>, <<3146, 3149>>, <<3157, 3158>>,
     <<3170, 3171>>, <<3201, 3201>>, <<3260, 3260>>, <<3263, 3263>>,
     <<3270, 3270>>, <<3276, 3277>>, <<3298, 3299>>, <<3328, 3329>>,
     <<3387, 3388>>, <<3393, 3396>>, <<3405, 3405>>, <<3426, 3427>>,
     <<3457, 3457>>, <<3530, 3530>>, <<3538, 3540>>, <<3542, 3542>>,
     <<3633, 3633>>, <<3636, 3642>>, <<3654, 3662>>, <<3761, 3761>>,
     <<3764, 3772>>, <<3782, 3782>>, <<3784, 3789>>, <<3864, 3865>>,
     <<3893, 3893>>, <<3895, 3895>>, <<3897, 3897>>, <<3953, 3966>>,
     <<3968, 3972>>, <<3974, 3975>>, <<3981, 3991>>, <<3993, 4028>>,
     <<4038, 4038>>, <<4141, 4144>>, <<4146, 4151>>, <<4153, 4154>>,
     <<4157, 4158>>, <<4184, 4185>>, <<4190, 4192>>, <<4209, 4212>>,
     <<4226, 4226>>, <<4229, 4230>>, <<4237, 4237>>, <<4253, 4253>>,
     <<4348, 4348>>, <<4957, 4959>>, <<5906, 5908>>, <<5938, 5939>>,
     <<5970, 5971>>, <<6002, 6003>>, <<6068, 6069>>, <<6071, 6077>>,
     <<6086, 6086>>, <<6089, 6099>>, <<6103, 6103>>, <<6109, 6109>>,
     <<6155, 6159>>, <<6211, 6211>>, <<6277, 6278>>, <<6313, 6313>>,
     <<6432, 6434>>, <<6439, 6440>>, <<6450, 6450>>, <<6457, 6459>>,
     <<6679, 6680>>, <<6683, 6683>>, <<6742, 6742>>, <<6744, 6750>>,
     <<6752, 6752>>, <<6754, 6754>>, <<6757, 6764>>, <<6771, 6780>>,
     <<6783, 6783>>, <<6823, 6823>>, <<6832, 6862>>, <<6912, 6915>>,
     <<6964, 6964>>, <<6966, 6970>>, <<6972, 6972>>, <<6978, 6978>>,
     <<7019, 7027>>, <<7040, 7041>>, <<7074, 7077>>, <<7080, 7081>>,
     <<7083, 7085>>, <<7142, 7142>>, <<7144, 7145>>, <<7149, 7149>>,
     <<7151, 7153>>, <<7212, 7219>>, <<7222, 7223>>, <<7288, 7293>>,
     <<7376, 7378>>, <<7380, 7392>>, <<7394, 7400>>, <<7405, 7405>>,
     <<7412, 7412>>, <<7416, 7417>>, <<7468, 7530>>, <<7544, 7544>>,
     <<7579, 7679>>, <<8125, 8125>>, <<8127, 8129>>, <<8141, 8143>>,
     <<8157, 8159>>, <<8173, 8175>>, <<8189, 8190>>, <<8203, 8207>>,
     <<8216, 8217>>, <<8228, 8228>>, <<8231, 8231>>, <<8234, 8238>>,
     <<8288, 8292>>, <<8294, 8303>>, <<8305, 8305>>, <<8319, 8319>>,
     <<8336, 8348>>, <<8400, 8432>>, <<11388, 11389>>, <<11503, 11505>>,
     <<11631, 11631>>, <<11647, 11647>>, <<11744, 11775>>, <<11823, 11823>>,
     <<12293, 12293>>, <<12330, 12333>>, <<12337, 12341>>, <<12347, 12347>>,
     <<12441, 12446>>, <<12540, 12542>>, <<40981, 40981>>, <<42232, 42237>>,
     <<42508, 42508>>, <<42607, 42610>>, <<42612, 42621>>, <<42623, 42623>>,
     <<42652, 42655>>, <<42736, 42737>>, <<42752, 42785>>, <<42864, 42864>>,
     <<42888, 42890>>, <<42994, 42996>>, <<43000, 43001>>, <<43010, 43010>>,
     <<43014, 43014>>, <<43019, 43019>>, <<43045, 43046>>, <<43052, 43052>>,
     <<43204, 43205>>, <<43232, 43249>>, <<43263, 43263>>, <<43302, 43309>>,
     <<43335, 43345>>, <<43392, 43394>>, <<43443, 43443>>, <<43446, 43449>>,
     <<43452, 43453>>, <<43471, 43471>>, <<43493, 43494>>, <<43561, 43566>>,
     <<43569, 43570>>, <<43573, 43574>>, <<43587, 43587>>, <<43596, 43596>>,
     <<43632, 43632>>, <<43644, 43644>>, <<43696, 43696>>, <<43698, 43700>>,
     <<43703, 43704>>, <<43710, 43711>>, <<43713, 43713>>, <<43741, 43741>>,
     <<43756, 43757>>, <<43763, 43764>>, <<43766, 43766>>, <<43867, 43871>>,
     <<43881, 43883>>, <<44005, 44005>>, <<44008, 44008>>, <<44013, 44013>>,
     <<64286, 64286>>, <<64434, 64450>>, <<65024, 65039>>, <<65043, 65043>>,
     <<65056, 65071>>, <<65106, 65106>>, <<65109, 65109>>, <<65279, 65279>>,
     <<65287, 65287>>, <<65294, 65294>>, <<65306, 65306>>, <<65342, 65342>>,
     <<65344, 65344>>, <<65392, 65392>>, <<65438, 65439>>, <<65507, 65507>>,
     <<65529, 65531>>, <<66045, 66045>>, <<66272, 66272>>, <<66422, 66426>>,
     <<67456, 67461>>, <<67463, 67504>>, <<67506, 67514>>, <<68097, 68099>>,
     <<68101, 68102>>, <<68108, 68111>>, <<68152, 68154>>, <<68159, 68159>>,
     <<68325, 68326>>, <<68900, 68903>>, <<69291, 69292>>, <<69446, 69456>>,
     <<69506, 69509>>, <<69633, 69633>>, <<69688, 69702>>, <<69744, 69744>>,
     <<69747, 69748>>, <<69759, 69761>>, <<69811, 69814>>, <<69817, 69818>>,
     <<69821, 69821>>, <<69826, 69826>>, <<69837, 69837>>, <<69888, 69890>>,
     <<69927, 69931>>, <<69933, 69940>>, <<70003, 70003>>, <<70016, 70017>>,
     <<70070, 70078>>, <<70089, 70092>>, <<70095, 70095>>, <<70191, 70193>>,
     <<70196, 70196>>, <<70198, 70199>>, <<70206, 70206>>, <<70367, 70367>>,
     <<70371, 70378>>, <<70400, 70401>>, <<70459, 70460>>, <<70464, 70464>>,
     <<70502, 70508>>, <<70512, 70516>>, <<70712, 70719>>, <<70722, 70724>>,
     <<70726, 70726>>, <<70750, 70750>>, <<70835, 70840>>, <<70842, 70842>>,
     <<70847, 70848>>, <<70850, 70851>>, <<71090, 71093>>, <<71100, 71101>>,
     <<71103, 71104>>, <<71132, 71133>>, <<71219, 71226>>, <<71229, 71229>>,
     <<71231, 71232>>, <<71339, 71339>>, <<71341, 71341>>, <<71344, 71349>>,
     <<71351, 71351>>, <<71453, 71455>>, <<71458, 71461>>, <<71463, 71467>>,
     <<71727, 71735>>, <<71737, 71738>>, <<71995, 71996>>, <<71998, 71998>>,
     <<72003, 72003>>, <<72148, 72151>>, <<72154, 72155>>, <<72160, 72160>>,
     <<72193, 72202>>, <<72243, 72248>>, <<72251, 72254>>, <<72263, 72263>>,
     <<72273, 72278>>, <<72281, 72283>>, <<72330, 72342>>, <<72344, 72345>>,
     <<72752, 72758>>, <<72760, 72765>>, <<72767, 72767>>, <<72850, 72871>>,
     <<72874, 72880>>, <<72882, 72883>>, <<72885, 72886>>, <<73009, 73014>>,
     <<73018, 73018>>, <<73020, 73021>>, <<73023, 73029>>, <<73031, 73031>>,
     <<73104, 73105>>, <<73109, 73109>>, <<73111, 73111>>, <<73459, 73460>>,
     <<78896, 78904>>, <<92912, 92916>>, <<92976, 92982>>, <<92992, 92995>>,
     <<94031, 94031>>, <<94095, 94111>>, <<94176, 94177>>, <<94179, 94180>>,
     <<110576, 110579>>, <<110581, 110587>>, <<110589, 110590>>,
     <<113821, 113822>>, <<113824, 113827>>, <<118528, 118573>>,
     <<118576, 118598>>, <<119143, 119145>>, <<119155, 119170>>,
     <<119173, 119179>>, <<119210, 119213>>, <<119362, 119364>>,
     <<121344, 121398>>, <<121403, 121452>>, <<121461, 121461>>,
     <<121476, 121476>>, <<121499, 121503>>, <<121505, 121519>>,
     <<122880, 122886>>, <<122888, 122904>>, <<122907, 122913>>,
     <<122915, 122916>>, <<122918, 122922>>, <<123184, 123197>>,
     <<123566, 123566>>, <<123628, 123631>>, <<125136, 125142>>,
     <<125252, 125259>>, <<127995, 127999>>, <<917505, 917505>>,
     <<917536, 917631>>, <<917760, 917999>>}

\* The cased characters (Cased), as intervals <<lo, hi>>
CasedRanges ==
    {<<65, 90>>, <<97, 122>>, <<170, 170>>, <<181, 181>>, <<186, 186>>,
     <<192, 214>>, <<216, 246>>, <<248, 442>>, <<444, 447>>, <<452, 659>>,
     <<661, 696>>, <<704, 705>>, <<736, 740>>, <<837, 837>>, <<880, 883>>,
     <<886, 887>>, <<890, 893>>, <<895, 895>>, <<902, 902>>, <<904, 906>>,
     <<908, 908>>, <<910, 929>>, <<931, 1013>>, <<1015, 1153>>,
     <<1162, 1327>>, <<1329, 1366>>, <<1376, 1416>>, <<4256, 4293>>,
     <<4295, 4295>>, <<4301, 4301>>, <<4304, 4346>>, <<4349, 4351>>,
     <<5024, 5109>>, <<5112, 5117>>, <<7296, 7304>>, <<7312, 7354>>,
     <<7357, 7359>>, <<7424, 7615>>, <<7680, 7957>>, <<7960, 7965>>,
     <<7968, 8005>>, <<8008, 8013>>, <<8016, 8023>>, <<8025, 8025>>,
     <<8027, 8027>>, <<8029, 8029>>, <<8031, 8061>>, <<8064, 8116>>,
     <<8118, 8124>>, <<8126, 8126>>, <<8130, 8132>>, <<8134, 8140>>,
     <<8144, 8147>>, <<8150, 8155>>, <<8160, 8172>>, <<8178, 8180>>,
     <<8182, 8188>>, <<8305, 8305>>, <<8319, 8319>>, <<8336, 8348>>,
     <<8450, 8450>>, <<8455, 8455>>, <<8458, 8467>>, <<8469, 8469>>,
     <<8473, 8477>>, <<8484, 8484>>, <<8486, 8486>>, <<8488, 8488>>,
     <<8490, 8493>>, <<8495, 8500>>, <<8505, 8505>>, <<8508, 8511>>,
     <<8517, 8521>>, <<8526, 8526>>, <<8544, 8575>>, <<8579, 8580>>,
     <<9398, 9449>>, <<11264, 11492>>, <<11499, 11502>>, <<11506, 11507>>,
     <<11520, 11557>>, <<11559, 11559>>, <<11565, 11565>>, <<42560, 42605>>,
     <<42624, 42653>>, <<42786, 42887>>, <<42891, 42894>>, <<42896, 42954>>,
     <<42960, 42961>>, <<42963, 42963>>, <<42965, 42969>>, <<42997, 42998>>,
     <<43000, 43002>>, <<43824, 43866>>, <<43868, 43880>>, <<43888, 43967>>,
     <<64256, 64262>>, <<64275, 64279>>, <<65313, 65338>>, <<65345, 65370>>,
     <<66560, 66639>>, <<66736, 66771>>, <<66776, 66811>>, <<66928, 66938>>,
     <<66940, 66954>>, <<66956, 66962>>, <<66964, 66965>>, <<66967, 66977>>,
     <<66979, 66993>>, <<66995, 67001>>, <<67003, 67004>>, <<67456, 67456>>,
     <<67459, 67461>>, <<67463, 67504>>, <<67506, 67514>>, <<68736, 68786>>,
     <<68800, 68850>>, <<71840, 71903>>, <<93760, 93823>>,
     <<119808, 119892>>, <<119894, 119964>>, <<119966, 119967>>,
     <<119970, 119970>>, <<119973, 119974>>, <<119977, 119980>>,
     <<119982, 119993>>, <<119995, 119995>>, <<119997, 120003>>,
     <<120005, 120069>>, <<120071, 120074>>, <<120077, 120084>>,
     <<120086, 120092>>, <<120094, 120121>>, <<120123, 120126>>,
     <<120128, 120132>>, <<120134, 120134>>, <<120138, 120144>>,
     <<120146, 120485>>, <<120488, 120512>>, <<120514, 120538>>,
     <<120540, 120570>>, <<120572, 120596>>, <<120598, 120628>>,
     <<120630, 120654>>, <<120656, 120686>>, <<120688, 120712>>,
     <<120714, 120744>>, <<120746, 120770>>, <<120772, 120779>>,
     <<122624, 122633>>, <<122635, 122654>>, <<125184, 125251>>,
     <<127280, 127305>>, <<127312, 127337>>, <<127344, 127369>>}

CaseIgnorable(cp) == \E r \in CaseIgnorableRanges : r[1] <= cp /\ cp <= r[2]
Cased(cp) == \E r \in CasedRanges : r[1] <= cp /\ cp <= r[2]

CapitalIDot == 304
CapitalSigma == 931

\* str.lower() of the one-character string ch, as a sequence of characters:
\* capital I with dot above (U+0130) lowers to two characters, i and the
\* combining dot above (U+0307)
LowerChar(ch) ==
    IF ch = CapitalIDot THEN <<105, 775>>
    ELSE IF \E r \in LowerRanges :
                r[1] <= ch /\ ch <= r[2] /\ (ch - r[1]) % r[3] = 0
    THEN LET r == CHOOSE q \in LowerRanges :
                      q[1] <= ch /\ ch <= q[2] /\ (ch - q[1]) % q[3] = 0
         IN <<ch + r[4]>>
    ELSE <<ch>>

\* The capital sigma at s[i] is final: looking through the case-ignorable
\* characters, a cased character comes before it and none comes after it.
FinalSigma(s, i) ==
    LET before == {j \in 1..(i - 1) : ~CaseIgnorable(s[j])}
        after == {j \in (i + 1)..Len(s) : ~CaseIgnorable(s[j])}
    IN /\ before # {}
       /\ Cased(s[CHOOSE j \in before : \A k \in before : k <= j])
       /\ \/ after = {}
          \/ ~Cased(s[CHOOSE j \in after : \A k \in after : j <= k])

\* the lower() of s from its i-th character on: a final capital sigma
\* lowers to the final small sigma (U+03C2), any other one to U+03C3
RECURSIVE LowerFrom(_, _)
LowerFrom(s, i) ==
    IF i > Len(s) THEN <<>>
    ELSE (IF s[i] = CapitalSigma /\ FinalSigma(s, i) THEN <<962>>
          ELSE LowerChar(s[i])) \o LowerFrom(s, i + 1)

\* str.lower()
Lower(s) == LowerFrom(s, 1)

\* `sub in s` for strings
Contains(sub, s) ==
    \E k \in 0..(Len(s) - Len(sub)) :
        \A i \in 1..Len(sub) : s[k + i] = sub[i]

KwWeapon == Text(<<"w","e","a","p","o","n">>)
KwKnife == Text(<<"k","n","i","f","e">>)
KwGun == Text(<<"g","u","n">>)
KwScissors == Text(<<"s","c","i","s","s","o","r","s">>)

\* the condition of the list comprehension, lines 207-210
IsDangerous(name) ==
    \/ Contains(KwWeapon, Lower(name))
    \/ Contains(KwKnife, Lower(name))
    \/ Contains(KwGun, Lower(name))
    \/ Contains(KwScissors, Lower(name))

\* class names a stop request may carry
Person == Text(<<"p","e","r","s","o","n">>)
Knife == Text(<<"K","n","i","f","e">>)
Handgun == Text(<<"h","a","n","d","g","u","n">>)
ClassPool == {Person, Knife, Handgun}
Scissors == Text(<<"S","C","I","S","S","O","R","S">>)
Weapons == Text(<<"w","e","a","p","o","n","s">>)
Gum == Text(<<"g","u","m">>)
\* "Knife" written with the Kelvin sign (U+212A), "KNIFE" with the dotted
\* capital I, "WEAPON" with A with diaeresis (U+00C4) for its A, "ECOLE GUN"
\* with E acute (U+00C9), and alpha sigma in capitals (U+0391 U+03A3) before
\* " knife"
KelvinKnife == <<8490>> \o Text(<<"n","i","f","e">>)
DottedKnife == Text(<<"K","N">>) \o <<CapitalIDot>> \o Text(<<"F","E">>)
Weaepon == Text(<<"W","E">>) \o <<196>> \o Text(<<"P","O","N">>)
EcoleGun == <<201>> \o Text(<<"C","O","L","E">>) \o <<32>> \o Text(<<"G","U","N">>)
SigmaKnife == <<913, CapitalSigma, 32>> \o Text(<<"k","n","i","f","e">>)
ExtraNames ==
    {Scissors, Weapons, Gum, KelvinKnife, DottedKnife, Weaepon, EcoleGun,
     SigmaKnife}

\* ------------------------------------------------------- JSON values
\* StopStreamRequest takes any JSON list (`Optional[list]`, line 272), so an
\* element and the values under its keys can be of any JSON type. A value
\* is a record with one field, named after its type: a number that a float
\* can hold (in hundredths), an integer beyond the range of a float (such as
\* 10**400, which json.loads reads as an int), a string, null, a boolean,
\* an array, or an object with its keys.
JNum(n) == [number |-> n]
JHugeInt == [huge_integer |-> TRUE]
JStr(s) == [string |-> s]
JNull == [null |-> TRUE]
JBool(b) == [bool |-> b]
JArr(q) == [array |-> q]
JObj(r) == [object |-> r]

\* the JSON type of a value
Kind(v) == CHOOSE k \in DOMAIN v : TRUE

\* what the frontend accumulates: {"class_name": c, "confidence": 0.9}
Detection(c) == JObj([class_name |-> JStr(c), confidence |-> JNum(90)])

\* an object with both keys and any values
Typed(cn, cf) == JObj([class_name |-> cn, confidence |-> cf])

\* an object without confidence, one without class_name, one with neither
NoConfidence(c) == JObj([class_name |-> JStr(c)])
NoClassName == JObj([confidence |-> JNum(90)])
NoKeys == JObj([bbox |-> JArr(<<>>)])

ZeroPointNine == <<48, 46, 57>>

\* accumulated_objects with an element that is not a detection: a key is
\* missing, the confidence is a string, null, an array, a boolean or an
\* integer beyond float range, the class name is a number or null, or the
\* element is not an object
MalformedInputs ==
    {<<NoConfidence(Knife)>>,
     <<Typed(JStr(Knife), JHugeInt)>>,
     <<Detection(Person), Typed(JStr(Person), JHugeInt)>>,
     <<Typed(JHugeInt, JNum(90))>>,
     <<NoClassName>>,
     <<NoKeys>>,
     <<Detection(Knife), NoConfidence(Person)>>,
     <<NoConfidence(Person), NoClassName>>,
     <<Typed(JStr(Knife), JStr(ZeroPointNine))>>,
     <<Typed(JStr(Person), JNull)>>,
     <<Typed(JStr(Knife), JArr(<<JNum(90)>>))>>,
     <<Typed(JStr(Knife), JBool(TRUE))>>,
     <<Typed(JNum(5), JNum(90))>>,
     <<Typed(JNull, JNum(90))>>,
     <<Detection(Knife), Typed(JNum(5), JNum(90))>>,
     <<Typed(JNum(5), JNum(90)), Typed(JStr(Knife), JNull)>>,
     <<JNum(5)>>,
     <<JNull>>,
     <<JStr(Knife)>>,
     <<JArr(<<>>)>>,
     <<Detection(Knife), JNum(5)>>}

\* the accumulated_objects of the stop requests: none, a list with one
\* dangerous and one harmless object, and a list whose object has no
\* confidence
StopInputs == {<<>>, <<Detection(Knife), Detection(Person)>>, <<NoConfidence(Knife)>>}

RECURSIVE SeqsUpTo(_, _)
\* the sequences over S of length at most n
SeqsUpTo(S, n) ==
    IF n = 0 THEN {<<>>}
    ELSE LET shorter == SeqsUpTo(S, n - 1)
         IN shorter \cup {Append(q, x) : q \in {r \in shorter : Len(r) = n - 1}, x \in S}

\* n dangerous objects, knives and handguns in turn
DangerousRun(n) == [i \in 1..n |-> Detection(IF i % 2 = 1 THEN Knife ELSE Handgun)]

\* the accumulated_objects the analysis is run on: every list of at most
\* MaxAcc objects of the three classes, the lists of up to MaxRun dangerous
\* objects, one-object lists of the other names, and the malformed lists
AccInputs ==
    SeqsUpTo({Detection(c) : c \in ClassPool}, MaxAcc)
        \cup {DangerousRun(n) : n \in 1..MaxRun}
        \cup MalformedInputs
        \cup {<<Detection(c)>> : c \in ExtraNames}

Min(a, b) == IF a < b THEN a ELSE b

RECURSIVE SelectSeq2(_, _)
\* [obj["class_name"] for obj in acc if cond(obj["class_name"])]
SelectSeq2(acc, i) ==
    IF i > Len(acc) THEN <<>>
    ELSE IF IsDangerous(acc[i].object.class_name.string)
         THEN <<acc[i].object.class_name.string>> \o SelectSeq2(acc, i + 1)
         ELSE SelectSeq2(acc, i + 1)

DetectedKeywords(acc) == SelectSeq2(acc, 1)

\* ------------------------------------------------------ threat reports
\* the report of lines 117-125, returned for an empty accumulation
EmptyReport ==
    [threat_level |-> "low",
     threat_percentage |-> 0,
     risk_breakdown |-> [high |-> 0, medium |-> 0, low |-> 100],
     flagged_content |-> [text |-> "No objects detected during the session.", names |-> <<>>],
     detected_keywords |-> <<>>,
     summary |-> [text |-> "No threats detected in the video analysis session.", n |-> 0],
     recommendations |-> <<"Continue regular monitoring", "No immediate action required">>]

\* ThreatPercentage without the cap at 100
ThreatPercentage_nocap(kws) == Len(kws) * 20

\* min(100, len(detected_keywords) * 20), line 215
ThreatPercentage(kws) == Min(100, Len(kws) * 20)

\* the except branch of analyze_threat_with_groq, lines 203-240
FallbackReport(acc) ==
    LET kws == DetectedKeywords(acc)
        pct == ThreatPercentage(kws)
    IN IF kws # <<>>
       THEN [threat_level |-> "high",
             threat_percentage |-> pct,
             risk_breakdown |-> [high |-> pct, medium |-> 100 - pct, low |-> 0],
             flagged_content |-> [text |-> "Dangerous objects detected: {names}.", names |-> kws],
             detected_keywords |-> kws,
             summary |-> [text |-> "High-risk situation detected with {n} dangerous objects.",
                         n |-> Len(kws)],
             recommendations |-> <<"Issue immediate alert: sharp weapon detected",
                                   "Alert local law enforcement for potential threat",
                                   "Discourage any approach - object could be concealed or used rapidly">>]
       ELSE [threat_level |-> "low",
             threat_percentage |-> 0,
             risk_breakdown |-> [high |-> 0, medium |-> 0, low |-> 100],
             flagged_content |-> [text |-> "No dangerous objects detected.", names |-> <<>>],
             detected_keywords |-> <<>>,
             summary |-> [text |-> "Low-risk situation based on detected objects.", n |-> 0],
             recommendations |-> <<"Continue monitoring", "No immediate action required">>]

\* JSON objects the reasoning service may embed in its answer; line 196-197
\* returns json.loads(json_match.group()) as it is
ServiceJson ==
    {[threat_level |-> "medium",
      threat_percentage |-> 50,
      risk_breakdown |-> [high |-> 20, medium |-> 50, low |-> 30],
      flagged_content |-> [text |-> "service text", names |-> <<>>],
      detected_keywords |-> <<>>,
      summary |-> [text |-> "service text", n |-> 0],
      recommendations |-> <<"service text">>],
     [threat_level |-> "critical",
      threat_percentage |-> 150,
      risk_breakdown |-> [high |-> 90, medium |-> 50, low |-> 30],
      flagged_content |-> [text |-> "service text", names |-> <<>>],
      detected_keywords |-> <<>>,
      summary |-> [text |-> "service text", n |-> 0],
      recommendations |-> <<"service text">>],
     [threat_level |-> "high"]}

\* how the external call of lines 182-201 can end, apart from never returning
\*   net_error   requests.post raises
\*   bad_status  status_code != 200
\*   no_choices  the response JSON has no choices[0].message.content
\*   no_json     re.search finds no {...}
\*   bad_json    json.loads raises
\*   ok          a JSON object is parsed and returned
Outcomes == {"net_error", "bad_status", "no_choices", "no_json", "bad_json", "ok"}

\* the value analyze_threat_with_groq returns for a non-empty accumulation
\* once the try block has ended with `outcome`
AnalysisOf(acc, outcome, j) ==
    IF outcome = "ok" THEN j ELSE FallbackReport(acc)

NoError == [type |-> "none", line |-> 0, key |-> "none"]
Raised(type, line, key) == [type |-> type, line |-> line, key |-> key]

\* `{value:.2f}`: a number or a boolean is formatted, an integer beyond
\* float range raises OverflowError (int too large to convert to float), a
\* string raises ValueError (unknown format code), any other value
\* TypeError
FormatError(v) ==
    IF Kind(v) \in {"number", "bool"} THEN NoError
    ELSE IF Kind(v) = "huge_integer" THEN Raised("OverflowError", 130, "none")
    ELSE IF Kind(v) = "string" THEN Raised("ValueError", 130, "none")
    ELSE Raised("TypeError", 130, "none")

\* line 130, `f"{obj['class_name']} (confidence: {obj['confidence']:.2f})"`,
\* on one element: obj['class_name'] raises TypeError when obj is not an
\* object and KeyError when the key is missing (any value is formatted by
\* `{...}`), then obj['confidence'] raises KeyError when missing, then the
\* format
ElementError(obj) ==
    IF Kind(obj) # "object" THEN Raised("TypeError", 130, "none")
    ELSE IF "class_name" \notin DOMAIN obj.object THEN Raised("KeyError", 130, "class_name")
    ELSE IF "confidence" \notin DOMAIN obj.object THEN Raised("KeyError", 130, "confidence")
    ELSE FormatError(obj.object.confidence)

\* lines 128-130: the loop that builds object_list runs before the try of
\* line 158, so the exception of its first failing element leaves
\* analyze_threat_with_groq and stop_stream
PromptError(acc) ==
    LET bad == {i \in 1..Len(acc) : ElementError(acc[i]) # NoError}
    IN IF bad = {} THEN NoError
       ELSE ElementError(acc[CHOOSE k \in bad : \A m \in bad : k <= m])

\* line 207, `obj["class_name"].lower()`: only a string has lower()
LowerError(obj) ==
    IF Kind(obj.object.class_name) = "string" THEN NoError
    ELSE Raised("AttributeError", 207, "none")

\* lines 206-211: the list comprehension runs inside the except handler, so
\* the AttributeError of its first element whose class name is not a string
\* leaves analyze_threat_with_groq and stop_stream
FallbackError(acc) ==
    LET bad == {i \in 1..Len(acc) : LowerError(acc[i]) # NoError}
    IN IF bad = {} THEN NoError
       ELSE LowerError(acc[CHOOSE k \in bad : \A m \in bad : k <= m])

\* IsEmptyAcc with the early return never taken
IsEmptyAcc_never(acc) == FALSE

\* `if not accumulated_objects`, line 116
IsEmptyAcc(acc) == acc = <<>>

ReportFields ==
    {"threat_level", "threat_percentage", "risk_breakdown", "flagged_content",
     "detected_keywords", "summary", "recommendations"}

\* the ThreatReport of the data model
ValidReport(r) ==
    /\ ReportFields \subseteq DOMAIN r
    /\ r.threat_level \in {"high", "medium", "low"}
    /\ r.threat_percentage \in 0..100
    /\ DOMAIN r.risk_breakdown = {"high", "medium", "low"}
    /\ r.risk_breakdown.high + r.risk_breakdown.medium + r.risk_breakdown.low = 100

\* ----------------------------------------------------------------- state
VARIABLES
    video_capture,         \* global video_capture: None or a capture
    streaming,             \* global streaming
    connected_websockets,  \* global connected_websockets, a list
    detection_thread,      \* global detection_thread: None or a thread
    caps,                  \* each cv2.VideoCapture object: none/open/failed/released
    wk,                    \* each thread running detection_loop: its position and locals
    hpc,                   \* position of the HTTP handler the event loop is running
    pre_streaming,         \* streaming when the current or last HTTP call began
    stop_acc,              \* accumulated_objects of the current or last stop request
    ext_called,            \* whether that stop request issued requests.post
    resp,                  \* the response of the last HTTP call that returned
    wsst                   \* each websocket client: new, open, closed, or failed
                           \* (its websocket_endpoint coroutine ended with an exception)

vars == <<video_capture, streaming, connected_websockets, detection_thread, caps,
          wk, hpc, pre_streaming, stop_acc, ext_called, resp, wsst>>

sharedVars == <<video_capture, streaming, connected_websockets, detection_thread, caps>>
callVars == <<hpc, pre_streaming, stop_acc, ext_called, resp>>

NoResp == [op |-> "none", status |-> "none"]
\* a thread's record: its position, the capture its read() was called on, the
\* iterator index, the websocket being sent to and the `disconnected` list of
\* the running broadcast, and what the broadcast has done so far: `snap` is
\* connected_websockets as it was when the broadcast began, `tried` the
\* websockets send_text was called on, `failed` those whose send raised,
\* `older` the threads that were in a broadcast when this one began (their
\* batches were produced earlier) and `late` the websockets that have been
\* delivered a batch produced after the one this thread is broadcasting;
\* `boxes` is what yolo.track found in the frame and `objects` the
\* detected_objects list built from it; `ret` is False at the loop test that
\* follows a read that gave no frame
Idle0 == [pc |-> "none", cap |-> None, idx |-> 0, cur |-> None, disc |-> <<>>,
          snap |-> <<>>, tried |-> {}, failed |-> {}, older |-> {}, late |-> {},
          boxes |-> <<>>, objects |-> <<>>, ret |-> TRUE]
At(pc) == [Idle0 EXCEPT !.pc = pc]

Init ==
    /\ video_capture = None
    /\ streaming = FALSE
    /\ connected_websockets = <<>>
    /\ detection_thread = None
    /\ caps = [c \in Caps |-> "none"]
    /\ wk = [t \in Threads |-> Idle0]
    /\ hpc = "idle"
    /\ pre_streaming = FALSE
    /\ stop_acc = <<>>
    /\ ext_called = FALSE
    /\ resp = NoResp
    /\ wsst = [w \in WS |-> "new"]

\* threading.Thread.is_alive(): a thread stays alive after its last
\* statement, while detection_loop returns ("returning": line 112 after a
\* release, then the end of the thread) or an exception leaves it
\* ("raising"), until ThreadEnd
Alive(t) == wk[t].pc \notin {"none", "done", "crashed"}

\* cv2.VideoCapture.isOpened()
IsOpened(c) == caps[c] = "open"

\* cv2.VideoCapture.release() on capture c
Released(c) == [caps EXCEPT ![c] = IF @ = "open" THEN "released" ELSE @]

\* list.remove(w): the list without its first w
RECURSIVE Remove(_, _)
Remove(s, w) ==
    IF s = <<>> THEN <<>>
    ELSE IF Head(s) = w THEN Tail(s) ELSE <<Head(s)>> \o Remove(Tail(s), w)

InList(s, w) == \E i \in 1..Len(s) : s[i] = w

NumCaps == Cardinality({c \in Caps : caps[c] # "none"})

\* ------------------------------------------------ start_stream, lines 243-269
\* ReleasePrior without the release
ReleasePrior_skip == caps

\* lines 247-248: `if video_capture is not None: video_capture.release()`
ReleasePrior == IF video_capture # None THEN Released(video_capture) ELSE caps

StartCall ==
    /\ hpc = "idle"
    /\ NumCaps < MaxStarts
    /\ caps' = ReleasePrior
    /\ hpc' = IF video_capture # None THEN "s249" ELSE "s252"
    /\ pre_streaming' = streaming
    /\ resp' = NoResp
    /\ stop_acc' = <<>>
    /\ ext_called' = FALSE
    /\ UNCHANGED <<video_capture, streaming, connected_websockets, detection_thread, wk>>
    /\ UNCHANGED wsst

\* line 249: `video_capture = None`
StartClear ==
    /\ hpc = "s249"
    /\ video_capture' = None
    /\ hpc' = "s252"
    /\ UNCHANGED <<streaming, connected_websockets, detection_thread, caps, wk>>
    /\ UNCHANGED <<pre_streaming, stop_acc, ext_called, resp>>
    /\ UNCHANGED wsst

\* line 252: `video_capture = cv2.VideoCapture(0)`; the device opens or not
StartOpen ==
    /\ hpc = "s252"
    /\ \E ok \in BOOLEAN :
        LET c == NumCaps + 1
        IN /\ caps' = [caps EXCEPT ![c] = IF ok THEN "open" ELSE "failed"]
           /\ video_capture' = c
    /\ hpc' = "s253"
    /\ UNCHANGED <<streaming, connected_websockets, detection_thread, wk>>
    /\ UNCHANGED <<pre_streaming, stop_acc, ext_called, resp>>
    /\ UNCHANGED wsst

\* lines 253-256: `if not video_capture.isOpened(): return {"error": ...}`,
\* else `streaming = True`
StartCheckOpened ==
    /\ hpc = "s253"
    /\ IF ~IsOpened(video_capture)
       THEN /\ resp' = [op |-> "start", status |-> "error"]
            /\ hpc' = "idle"
            /\ UNCHANGED streaming
       ELSE /\ streaming' = TRUE
            /\ hpc' = "s259"
            /\ UNCHANGED resp
    /\ UNCHANGED <<video_capture, connected_websockets, detection_thread, caps, wk>>
    /\ UNCHANGED <<pre_streaming, stop_acc, ext_called>>
    /\ UNCHANGED wsst

\* lines 259-261: `if detection_thread is not None and detection_thread.is_alive():
\* streaming = False`
StartCheckAlive ==
    /\ hpc = "s259"
    /\ IF detection_thread # None /\ Alive(detection_thread)
       THEN /\ streaming' = FALSE
            /\ hpc' = "s262"
       ELSE /\ hpc' = "s265"
            /\ UNCHANGED streaming
    /\ UNCHANGED <<video_capture, connected_websockets, detection_thread, caps, wk>>
    /\ UNCHANGED <<pre_streaming, stop_acc, ext_called, resp>>
    /\ UNCHANGED wsst

\* line 262: `detection_thread.join(timeout=1.0)` returns because the thread ended
StartJoinDone ==
    /\ hpc = "s262"
    /\ ~Alive(detection_thread)
    /\ hpc' = "s265"
    /\ UNCHANGED sharedVars
    /\ UNCHANGED <<wk, pre_streaming, stop_acc, ext_called, resp>>
    /\ UNCHANGED wsst

\* line 262: `detection_thread.join(timeout=1.0)` returns because the second
\* is over; time is not modelled, so this can happen whenever the thread is
\* still alive (inside a read, the inference or a send)
StartJoinTimeout ==
    /\ hpc = "s262"
    /\ Alive(detection_thread)
    /\ hpc' = "s265"
    /\ UNCHANGED sharedVars
    /\ UNCHANGED <<wk, pre_streaming, stop_acc, ext_called, resp>>
    /\ UNCHANGED wsst

\* lines 265-269: the new thread is created and started, the call returns;
\* the thread gets the number of the capture this call created
StartLaunch ==
    /\ hpc = "s265"
    /\ LET t == video_capture
       IN /\ wk' = [wk EXCEPT ![t] = At("check")]
          /\ detection_thread' = t
    /\ resp' = [op |-> "start", status |-> "started"]
    /\ hpc' = "idle"
    /\ UNCHANGED <<video_capture, streaming, connected_websockets, caps>>
    /\ UNCHANGED <<pre_streaming, stop_acc, ext_called>>
    /\ UNCHANGED wsst

\* ------------------------------------------------- stop_stream, lines 275-286
\* `streaming = False`, then analyze_threat_with_groq: an empty accumulation
\* returns at line 117, an element that line 130 cannot format raises there
\* and the call ends with that exception, a missing GROQ_API_KEY raises at
\* line 162 into the except branch (which returns the fallback report, or
\* raises at line 207), otherwise requests.post is issued at line 182
StopCall(acc, has_key) ==
    /\ hpc = "idle"
    /\ streaming' = FALSE
    /\ pre_streaming' = streaming
    /\ stop_acc' = acc
    /\ IF IsEmptyAcc(acc)
       THEN /\ resp' = [op |-> "stop", status |-> "stopped", analysis |-> EmptyReport]
            /\ hpc' = "idle"
            /\ ext_called' = FALSE
       ELSE IF PromptError(acc) # NoError
       THEN /\ resp' = [op |-> "stop", status |-> "raised", error |-> PromptError(acc)]
            /\ hpc' = "idle"
            /\ ext_called' = FALSE
       ELSE IF ~has_key
       THEN /\ resp' = IF FallbackError(acc) # NoError
                       THEN [op |-> "stop", status |-> "raised", error |-> FallbackError(acc)]
                       ELSE [op |-> "stop", status |-> "stopped",
                             analysis |-> FallbackReport(acc)]
            /\ hpc' = "idle"
            /\ ext_called' = FALSE
       ELSE /\ resp' = NoResp
            /\ hpc' = "ext"
            /\ ext_called' = TRUE
    /\ UNCHANGED <<video_capture, connected_websockets, detection_thread, caps, wk>>
    /\ UNCHANGED wsst

\* requests.post returns or raises (it has no timeout: it may also never do
\* so, and then this step never happens); lines 188-240 and 283-286: the
\* parsed JSON is returned, or the except branch runs
ExtReturn(outcome, j) ==
    /\ hpc = "ext"
    /\ resp' = IF outcome # "ok" /\ FallbackError(stop_acc) # NoError
               THEN [op |-> "stop", status |-> "raised", error |-> FallbackError(stop_acc)]
               ELSE [op |-> "stop", status |-> "stopped",
                     analysis |-> AnalysisOf(stop_acc, outcome, j)]
    /\ hpc' = "idle"
    /\ UNCHANGED sharedVars
    /\ UNCHANGED <<wk, pre_streaming, stop_acc, ext_called>>
    /\ UNCHANGED wsst

\* -------------------------------------------- websocket_endpoint, lines 289-298
\* `await websocket.accept(); connected_websockets.append(websocket)`
WsConnect(w) ==
    /\ hpc = "idle"
    /\ wsst[w] = "new"
    /\ connected_websockets' = Append(connected_websockets, w)
    /\ wsst' = [wsst EXCEPT ![w] = "open"]
    /\ UNCHANGED <<video_capture, streaming, detection_thread, caps, wk>>
    /\ UNCHANGED callVars

\* receive_text raises WebSocketDisconnect; line 298 removes the websocket,
\* and list.remove raises ValueError when it is no longer in the list
WsDisconnect(w) ==
    /\ hpc = "idle"
    /\ wsst[w] = "open"
    /\ IF InList(connected_websockets, w)
       THEN /\ connected_websockets' = Remove(connected_websockets, w)
            /\ wsst' = [wsst EXCEPT ![w] = "closed"]
       ELSE /\ wsst' = [wsst EXCEPT ![w] = "failed"]
            /\ UNCHANGED connected_websockets
    /\ UNCHANGED <<video_capture, streaming, detection_thread, caps, wk>>
    /\ UNCHANGED callVars

\* ---------------------------------------------- detection_loop, lines 56-112
notWk == <<hpc, pre_streaming, stop_acc, ext_called, resp, wsst>>

\* line 60: `while streaming and video_capture is not None`; the two globals
\* are read in one step
LoopCheck(t) ==
    /\ wk[t].pc = "check"
    /\ wk' = [wk EXCEPT ![t] =
                IF streaming /\ video_capture # None THEN At("read") ELSE At("cleanup")]
    /\ UNCHANGED sharedVars
    /\ UNCHANGED notWk

\* line 61: `video_capture.read()` is called on the object the global names
\* now; on None the attribute lookup raises and the exception leaves
\* detection_loop
ReadBegin(t) ==
    /\ wk[t].pc = "read"
    /\ wk' = [wk EXCEPT ![t] =
                IF video_capture = None THEN At("raising")
                ELSE [At("reading") EXCEPT !.cap = video_capture]]
    /\ UNCHANGED sharedVars
    /\ UNCHANGED notWk

\* lines 61-63: the open device answers the read, with a frame or without
\* (`if not ret: continue`); a stalled device never does
ReadFrame(t, ret) ==
    /\ wk[t].pc = "reading"
    /\ IsOpened(wk[t].cap)
    /\ wk' = [wk EXCEPT ![t] =
                IF ret THEN At("track") ELSE [At("check") EXCEPT !.ret = FALSE]]
    /\ UNCHANGED sharedVars
    /\ UNCHANGED notWk

\* lines 61-63: read() on a capture that is not open returns (False, None)
ReadClosed(t) ==
    /\ wk[t].pc = "reading"
    /\ ~IsOpened(wk[t].cap)
    /\ wk' = [wk EXCEPT ![t] = [At("check") EXCEPT !.ret = FALSE]]
    /\ UNCHANGED sharedVars
    /\ UNCHANGED notWk

\* the threads inside broadcast_detection_data
InBroadcast == {u \in Threads : wk[u].pc \in {"iter", "send", "prune"}}

\* a box of result.boxes: its class and its confidence in ten-thousandths
Box(c, conf) == [cls |-> c, conf |-> conf]

\* line 72 with `>=` in place of `>`
PassesThreshold_ge(conf) == conf >= ConfThreshold

\* line 72: `if box.conf[0] > 0.4`
PassesThreshold(conf) == conf > ConfThreshold

\* lines 66-84: detected_objects, one entry per box that passes, in order
RECURSIVE DetectedObjects(_)
DetectedObjects(boxes) ==
    IF boxes = <<>> THEN <<>>
    ELSE LET b == Head(boxes)
         IN (IF PassesThreshold(b.conf)
             THEN <<[class_name |-> b.cls, confidence |-> b.conf]>>
             ELSE <<>>) \o DetectedObjects(Tail(boxes))

\* the confidences yolo.track reports: around the threshold and well above
ConfPool == {ConfThreshold - 1, ConfThreshold, ConfThreshold + 1, 9000}
BoxPool == {Box(c, f) : c \in {Person, Knife}, f \in ConfPool}
FrameInputs == SeqsUpTo(BoxPool, MaxBoxes)

\* the frame of the runs that do not vary the detections
StreamFrames == {<<Box(Person, 9000), Box(Knife, ConfThreshold)>>}

\* lines 65-104 and 44-45: inference, the batch, asyncio.run(broadcast...),
\* `if connected_websockets:`
Track(t, boxes) ==
    /\ wk[t].pc = "track"
    /\ wk' = [wk EXCEPT ![t] =
                IF connected_websockets # <<>>
                THEN [At("iter") EXCEPT !.snap = connected_websockets,
                                        !.older = InBroadcast \ {t},
                                        !.boxes = boxes,
                                        !.objects = DetectedObjects(boxes)]
                ELSE [At("waitkey") EXCEPT !.boxes = boxes,
                                           !.objects = DetectedObjects(boxes)]]
    /\ UNCHANGED sharedVars
    /\ UNCHANGED notWk

\* line 46: the list iterator's next(): the element at its index, if any
IterNext(t) ==
    /\ wk[t].pc = "iter"
    /\ wk' = [wk EXCEPT ![t] =
                IF wk[t].idx < Len(connected_websockets)
                THEN [@ EXCEPT !.pc = "send", !.idx = @ + 1,
                               !.cur = connected_websockets[wk[t].idx + 1],
                               !.tried = @ \cup {connected_websockets[wk[t].idx + 1]}]
                ELSE [@ EXCEPT !.pc = "prune", !.cur = None]]
    /\ UNCHANGED sharedVars
    /\ UNCHANGED notWk

\* lines 47-50: `await websocket.send_text(...)` ends, delivered or raising
SendDone(t, ok) ==
    /\ wk[t].pc = "send"
    /\ wk' = [u \in Threads |->
                IF u = t
                THEN [wk[t] EXCEPT !.pc = "iter", !.cur = None,
                          !.disc = IF ok THEN @ ELSE Append(@, wk[t].cur),
                          !.failed = IF ok THEN @ ELSE @ \cup {wk[t].cur}]
                ELSE IF ok /\ u \in wk[t].older
                THEN [wk[u] EXCEPT !.late = @ \cup {wk[t].cur}]
                ELSE wk[u]]
    /\ UNCHANGED sharedVars
    /\ UNCHANGED notWk

\* lines 53-54: `for ws in disconnected: connected_websockets.remove(ws)`,
\* one removal; ValueError leaves asyncio.run and detection_loop, and the
\* thread's record then stays as the broadcast left it
Prune(t) ==
    /\ wk[t].pc = "prune"
    /\ IF wk[t].disc = <<>>
       THEN /\ wk' = [u \in Threads |->
                        IF u = t THEN At("waitkey")
                        ELSE [wk[u] EXCEPT !.older = @ \ {t}]]
            /\ UNCHANGED connected_websockets
       ELSE IF InList(connected_websockets, Head(wk[t].disc))
       THEN /\ connected_websockets' = Remove(connected_websockets, Head(wk[t].disc))
            /\ wk' = [wk EXCEPT ![t] = [@ EXCEPT !.disc = Tail(@)]]
       ELSE /\ wk' = [u \in Threads |->
                        IF u = t THEN [wk[t] EXCEPT !.pc = "raising", !.older = {}, !.late = {}]
                        ELSE [wk[u] EXCEPT !.older = @ \ {t}]]
            /\ UNCHANGED connected_websockets
    /\ UNCHANGED <<video_capture, streaming, detection_thread, caps>>
    /\ UNCHANGED notWk

\* lines 106-107: `if cv2.waitKey(1) & 0xFF == ord('q'): break`
WaitKey(t, q) ==
    /\ wk[t].pc = "waitkey"
    /\ wk' = [wk EXCEPT ![t] = IF q THEN At("cleanup") ELSE At("check")]
    /\ UNCHANGED sharedVars
    /\ UNCHANGED notWk

\* line 110: `if video_capture is not None`; on None detection_loop returns
Cleanup(t) ==
    /\ wk[t].pc = "cleanup"
    /\ wk' = [wk EXCEPT ![t] =
                IF video_capture # None THEN At("release") ELSE At("returning")]
    /\ UNCHANGED sharedVars
    /\ UNCHANGED notWk

\* line 111: `video_capture.release()` on the object the global names now;
\* on None the attribute lookup raises; line 112, cv2.destroyAllWindows(),
\* and the return are still to come
Release(t) ==
    /\ wk[t].pc = "release"
    /\ IF video_capture = None
       THEN /\ wk' = [wk EXCEPT ![t] = At("raising")]
            /\ UNCHANGED caps
       ELSE /\ caps' = Released(video_capture)
            /\ wk' = [wk EXCEPT ![t] = At("returning")]
    /\ UNCHANGED <<video_capture, streaming, connected_websockets, detection_thread>>
    /\ UNCHANGED notWk

\* the end of the thread: detection_loop has returned (after line 112 when
\* it released a capture) or the exception has left it, and is_alive()
\* becomes False
ThreadEnd(t) ==
    /\ wk[t].pc \in {"returning", "raising"}
    /\ wk' = [wk EXCEPT ![t] =
                [@ EXCEPT !.pc = IF @ = "returning" THEN "done" ELSE "crashed"]]
    /\ UNCHANGED sharedVars
    /\ UNCHANGED notWk

\* steps a running thread takes by itself
WorkerStep(t) ==
    \/ LoopCheck(t)
    \/ ReadBegin(t)
    \/ ReadClosed(t)
    \/ \E boxes \in StreamFrames : Track(t, boxes)
    \/ IterNext(t)
    \/ Prune(t)
    \/ \E q \in BOOLEAN : WaitKey(t, q)
    \/ Cleanup(t)
    \/ Release(t)
    \/ ThreadEnd(t)

\* steps of a running HTTP handler that wait for nothing outside the process
HandlerStep ==
    \/ StartClear
    \/ StartOpen
    \/ StartCheckOpened
    \/ StartCheckAlive
    \/ StartJoinDone
    \/ StartJoinTimeout
    \/ StartLaunch

Next ==
    \/ StartCall
    \/ StartClear
    \/ StartOpen
    \/ StartCheckOpened
    \/ StartCheckAlive
    \/ StartJoinDone
    \/ StartJoinTimeout
    \/ StartLaunch
    \/ \E acc \in StopInputs, has_key \in BOOLEAN : StopCall(acc, has_key)
    \/ \E outcome \in Outcomes, j \in ServiceJson : ExtReturn(outcome, j)
    \/ \E w \in WS : WsConnect(w)
    \/ \E w \in WS : WsDisconnect(w)
    \/ \E t \in Threads : LoopCheck(t)
    \/ \E t \in Threads : ReadBegin(t)
    \/ \E t \in Threads, ret \in BOOLEAN : ReadFrame(t, ret)
    \/ \E t \in Threads : ReadClosed(t)
    \/ \E t \in Threads, boxes \in StreamFrames : Track(t, boxes)
    \/ \E t \in Threads : IterNext(t)
    \/ \E t \in Threads, ok \in BOOLEAN : SendDone(t, ok)
    \/ \E t \in Threads : Prune(t)
    \/ \E t \in Threads, q \in BOOLEAN : WaitKey(t, q)
    \/ \E t \in Threads : Cleanup(t)
    \/ \E t \in Threads : Release(t)
    \/ \E t \in Threads : ThreadEnd(t)

Spec == Init /\ [][Next]_vars

\* The server while no websocket client connects: connected_websockets stays
\* empty and every broadcast ends at `if connected_websockets:`.
NextLifecycle ==
    \/ StartCall
    \/ StartClear
    \/ StartOpen
    \/ StartCheckOpened
    \/ StartCheckAlive
    \/ StartJoinDone
    \/ StartJoinTimeout
    \/ StartLaunch
    \/ \E acc \in StopInputs, has_key \in BOOLEAN : StopCall(acc, has_key)
    \/ \E outcome \in Outcomes, j \in ServiceJson : ExtReturn(outcome, j)
    \/ \E t \in Threads : LoopCheck(t)
    \/ \E t \in Threads : ReadBegin(t)
    \/ \E t \in Threads, ret \in BOOLEAN : ReadFrame(t, ret)
    \/ \E t \in Threads : ReadClosed(t)
    \/ \E t \in Threads, boxes \in StreamFrames : Track(t, boxes)
    \/ \E t \in Threads, q \in BOOLEAN : WaitKey(t, q)
    \/ \E t \in Threads : Cleanup(t)
    \/ \E t \in Threads : Release(t)
    \/ \E t \in Threads : ThreadEnd(t)

LifecycleSpec == Init /\ [][NextLifecycle]_vars

\* The server while no stop_stream is called: sessions are started and
\* restarted, clients connect and disconnect, workers broadcast.
NextBroadcast ==
    \/ StartCall
    \/ StartClear
    \/ StartOpen
    \/ StartCheckOpened
    \/ StartCheckAlive
    \/ StartJoinDone
    \/ StartJoinTimeout
    \/ StartLaunch
    \/ \E w \in WS : WsConnect(w)
    \/ \E w \in WS : WsDisconnect(w)
    \/ \E t \in Threads : LoopCheck(t)
    \/ \E t \in Threads : ReadBegin(t)
    \/ \E t \in Threads, ret \in BOOLEAN : ReadFrame(t, ret)
    \/ \E t \in Threads : ReadClosed(t)
    \/ \E t \in Threads, boxes \in StreamFrames : Track(t, boxes)
    \/ \E t \in Threads : IterNext(t)
    \/ \E t \in Threads, ok \in BOOLEAN : SendDone(t, ok)
    \/ \E t \in Threads : Prune(t)
    \/ \E t \in Threads, q \in BOOLEAN : WaitKey(t, q)
    \/ \E t \in Threads : Cleanup(t)
    \/ \E t \in Threads : Release(t)
    \/ \E t \in Threads : ThreadEnd(t)

BroadcastSpec == Init /\ [][NextBroadcast]_vars

\* Sessions that follow one another, on every frame of FrameInputs: each
\* start_stream call is made when no thread is alive and its thread runs
\* until the 'q' key ends it, so its capture stays open while it reads; no
\* client and no stop_stream.
NextDetect ==
    \/ StartCall /\ \A t \in Threads : ~Alive(t)
    \/ StartClear
    \/ StartOpen
    \/ StartCheckOpened
    \/ StartCheckAlive
    \/ StartLaunch
    \/ \E t \in Threads : LoopCheck(t)
    \/ \E t \in Threads : ReadBegin(t)
    \/ \E t \in Threads, ret \in BOOLEAN : ReadFrame(t, ret)
    \/ \E t \in Threads, boxes \in FrameInputs : Track(t, boxes)
    \/ \E t \in Threads, q \in BOOLEAN : WaitKey(t, q)
    \/ \E t \in Threads : Cleanup(t)
    \/ \E t \in Threads : Release(t)
    \/ \E t \in Threads : ThreadEnd(t)

DetectSpec == Init /\ [][NextDetect]_vars

\* stop_stream alone, on every accumulation of AccInputs
NextAnalyzer ==
    \/ \E acc \in AccInputs, has_key \in BOOLEAN : StopCall(acc, has_key)
    \/ \E outcome \in Outcomes, j \in ServiceJson : ExtReturn(outcome, j)

AnalyzerSpec == Init /\ [][NextAnalyzer]_vars

\* The scheduler runs every thread and the event loop; a device that
\* delivers nothing, a subscriber that does not read and a service that does
\* not answer are not forced to.
FairSpec ==
    /\ Spec
    /\ \A t \in Threads : WF_vars(WorkerStep(t))
    /\ WF_vars(HandlerStep)

\* the same scheduling, with no websocket client and with no stop_stream
FairLifecycleSpec ==
    /\ LifecycleSpec
    /\ \A t \in Threads : WF_vars(WorkerStep(t))
    /\ WF_vars(HandlerStep)

FairBroadcastSpec ==
    /\ BroadcastSpec
    /\ \A t \in Threads : WF_vars(WorkerStep(t))
    /\ WF_vars(HandlerStep)

\* ================================================================ claims
AliveThreads == {t \in Threads : Alive(t)}
OpenCaps == {c \in Caps : IsOpened(c)}
StartSucceeded == hpc = "idle" /\ resp.op = "start" /\ resp.status = "started"
StartFailed == hpc = "idle" /\ resp.op = "start" /\ resp.status = "error"
StopReturned == hpc = "idle" /\ resp.op = "stop" /\ resp.status = "stopped"
StopRaised == hpc = "idle" /\ resp.op = "stop" /\ resp.status = "raised"
\* every element is a detection: an object with a string under class_name
\* and, under confidence, a number that a float can hold
AllDetections(acc) ==
    \A i \in 1..Len(acc) :
        /\ "object" \in DOMAIN acc[i]
        /\ {"class_name", "confidence"} \subseteq DOMAIN acc[i].object
        /\ "string" \in DOMAIN acc[i].object.class_name
        /\ "number" \in DOMAIN acc[i].object.confidence

\* C1: in every reachable state at most one thread is executing
\* detection_loop, also when start_stream's join on the previous thread
\* timed out.
C1_AtMostOneWorker == Cardinality(AliveThreads) <= 1

\* C2: whenever start_stream has returned "Streaming started", streaming is
\* True (the state is Streaming), whether it was called from Idle or while a
\* previous worker was alive.
C2_StartSuccessIsStreaming == StartSucceeded => streaming

\* C3: no sequence of start_stream and stop_stream calls leaves two
\* VideoCapture objects open at the same time.
C3_AtMostOneOpenCapture == Cardinality(OpenCaps) <= 1

\* C3 witness: a second start_stream has opened its capture after a first
\* one had opened its own, which is released.
C3_Witness ==
    /\ caps[1] = "released"
    /\ caps[2] = "open"
    /\ video_capture = 2

\* C4: when start_stream has just opened its new capture (line 252), no
\* earlier worker thread is still alive: the drain comes before the open.
C4_OpenAfterDrain == hpc = "s253" => AliveThreads = {}

\* C5: when start_stream has returned the error because the capture did not
\* open, the state is Idle (streaming is False) whatever it was before the
\* call, and no capture is open.
C5_FailedStartIsIdle == StartFailed => (~streaming /\ OpenCaps = {})

\* C6: stop_stream leaves the state Idle and returns a report, and a call
\* changes the state in two ways only: start_stream from Idle to Streaming,
\* stop_stream from Streaming to Idle; so no start_stream that began in
\* Streaming ends in Idle.
C6_OnlyTwoTransitions ==
    /\ StopReturned => (~streaming /\ "analysis" \in DOMAIN resp)
    /\ (hpc = "idle" /\ resp.op = "start") => ~(pre_streaming /\ ~streaming)

\* C7: once stop_stream has returned, and unless a start_stream is called
\* afterwards, eventually no worker thread is alive and no capture is open.
C7_StopEndsWorker ==
    StopReturned ~> ((AliveThreads = {} /\ OpenCaps = {}) \/ hpc \notin {"idle", "ext"})

\* C8: every stop_stream call that issues the external request eventually
\* returns its report.
C8_StopReturns == (hpc = "ext") ~> StopReturned

\* C9: stop_stream raises nothing on a list of detections, and the report
\* it returns is a valid ThreatReport, for every accumulation and every
\* outcome of the external call.
C9_StopReportValid ==
    /\ StopRaised => ~AllDetections(stop_acc)
    /\ StopReturned => ValidReport(resp.analysis)

\* C10: a stop_stream whose accumulated_objects is empty returns the low
\* report (percentage 0, breakdown 0/0/100) and issues no external request.
C10_EmptyStopIsLow ==
    /\ (hpc = "ext") => stop_acc # <<>>
    /\ (StopReturned /\ stop_acc = <<>>) =>
         /\ resp.analysis.threat_level = "low"
         /\ resp.analysis.threat_percentage = 0
         /\ resp.analysis.risk_breakdown = [high |-> 0, medium |-> 0, low |-> 100]
         /\ ~ext_called

\* C10 witness: a stop_stream with no accumulated objects has returned on a
\* session that was streaming, with a worker still alive.
C10_Witness ==
    /\ StopReturned
    /\ stop_acc = <<>>
    /\ pre_streaming
    /\ AliveThreads # {}

\* the class names of the inputs that contain weapon, knife, gun or scissors
\* in some case, listed by hand
C11_Matching ==
    {Knife, Handgun, Scissors, Weapons, KelvinKnife, EcoleGun, SigmaKnife}
C11_Names(acc) ==
    SelectSeq([i \in 1..Len(acc) |-> acc[i].object.class_name.string],
              LAMBDA c : c \in C11_Matching)
C11_N(acc) == Len(C11_Names(acc))

Range(q) == {q[i] : i \in 1..Len(q)}

\* C12: a send that raises does not end the broadcast and does not end the
\* thread: when the iteration of a broadcast is over, send_text has been
\* called on every websocket that was in connected_websockets when the
\* broadcast began and is still connected, also when another client
\* disconnected meanwhile; and no thread ends inside a broadcast.
C12_FailureNotFatal ==
    \A t \in Threads :
        /\ wk[t].pc = "prune" =>
              \A w \in Range(wk[t].snap) :
                  (wsst[w] = "open" /\ InList(connected_websockets, w)) => w \in wk[t].tried
        /\ ~(wk[t].pc = "crashed" /\ wk[t].snap # <<>>)

\* the broadcast of thread t is over: every removal is done, or an exception
\* has left it
PublishOver(t) ==
    \/ wk[t].pc = "prune" /\ wk[t].disc = <<>>
    \/ wk[t].pc = "crashed" /\ wk[t].snap # <<>>

\* C13: once a broadcast in which some send raised is over, no websocket
\* whose send raised is in connected_websockets any more (so no later
\* broadcast sends to it), and every other websocket of the broadcast that
\* is still connected is in connected_websockets and was sent the batch.
C13_FailedSubscriberDropped ==
    \A t \in Threads :
        (PublishOver(t) /\ wk[t].failed # {}) =>
            /\ \A w \in wk[t].failed : ~InList(connected_websockets, w)
            /\ \A w \in Range(wk[t].snap) \ wk[t].failed :
                   wsst[w] = "open" =>
                       (InList(connected_websockets, w) /\ w \in wk[t].tried)

\* C14: removing a websocket that is no longer in connected_websockets
\* raises nothing: no websocket_endpoint coroutine ends with the ValueError
\* of list.remove at line 298, and no thread ends with the one of line 54.
C14_UnsubscribeIdempotent ==
    /\ \A w \in WS : wsst[w] # "failed"
    /\ \A t \in Threads : ~(wk[t].pc = "crashed" /\ wk[t].disc # <<>>)

\* C15: every websocket is delivered the batches in the order in which they
\* were produced: no send_text succeeds on a websocket that has already been
\* delivered a batch produced later, whatever start_stream calls were made
\* and however the threads interleave.
C15_DeliveredInOrder ==
    [][\A t \in Threads :
          (wk[t].pc = "send" /\ wk'[t].pc = "iter" /\ wk'[t].failed = wk[t].failed)
              => wk[t].cur \notin wk[t].late]_vars

\* C16: handing a batch to the broadcast does not hold the thread: a thread
\* that has called send_text on a websocket whose client does not read gets
\* on to its next frame all the same.
C16_HandOffDoesNotBlock ==
    \A t \in Threads : (wk[t].pc = "send") ~> (wk[t].pc # "send")

\* ------------------------------------------------------------ detection
\* C17: a box is in the batch of its frame exactly when its confidence is
\* above 0.4 (4000 ten-thousandths): the batch has one object per such box,
\* in order and with the box's class and confidence, and nothing else; 0.4
\* itself is left out and 0.4001 is in.
C17_BatchIffAboveThreshold ==
    \A t \in Threads :
        LET bs == wk[t].boxes
            above == SelectSeq(bs, LAMBDA b : b.conf > 4000)
        IN /\ Len(wk[t].objects) = Len(above)
           /\ \A i \in 1..Len(above) :
                  wk[t].objects[i] = [class_name |-> above[i].cls,
                                      confidence |-> above[i].conf]

\* C17 witness: a frame with one box at 0.4 and one at 0.4001 gave a batch
\* holding the second only.
C17_Witness ==
    \E t \in Threads :
        /\ wk[t].pc = "waitkey"
        /\ wk[t].boxes = <<Box(Knife, 4000), Box(Knife, 4001)>>
        /\ wk[t].objects = <<[class_name |-> Knife, confidence |-> 4001]>>

\* ------------------------------------------------------------ worker exits
\* C18: a read that gives no frame does not end the thread while streaming
\* is True: from the loop test that follows it the thread goes back to
\* read(), and it leaves the loop only when streaming is False; a failed
\* read leads to no batch.
C18_FailedReadRetries ==
    [][\A t \in Threads :
          /\ (wk[t].pc = "check" /\ ~wk[t].ret /\ wk'[t] # wk[t]) =>
                 wk'[t].pc = (IF streaming THEN "read" ELSE "cleanup")
          /\ (wk[t].pc = "reading" /\ wk'[t].pc = "check") =>
                 wk'[t].objects = <<>>]_vars

\* C19: a thread that has ended, by leaving the loop or by an exception,
\* has not left the capture of its session open.
C19_ReleasedOnEveryExit ==
    \A t \in Threads : wk[t].pc \in {"done", "crashed"} => ~IsOpened(t)

\* C20: connected_websockets does not change while a broadcast iterates
\* over it (lines 46-50): no append or remove happens between the first
\* next() of the iterator and its end.
C20_NoMutationWhileIterating ==
    [][(\E t \in Threads : wk[t].pc \in {"iter", "send"})
          => connected_websockets' = connected_websockets]_vars

====
